---- MODULE Spec2Model ----
(***************************************************************************)
(* A model of the Lexer of src/src/tokenizer.rs: Lexer::new and the        *)
(* Iterator::next implementation, over byte strings.  Offsets are the      *)
(* 0-based byte offsets of the source; a string is a sequence of bytes, so *)
(* byte offset k of the source is element k + 1 of the sequence.           *)
(***************************************************************************)
EXTENDS Integers, Sequences, FiniteSets, TLC

\* Most next_light steps taken from one starting light.
MaxSteps == 6

\* Longest input string explored.
MaxLen == 4

\* Most next() calls made on one Lexer.
MaxCalls == 6

\* Bytes the inputs are built from: tab, space, '(', ')', 'A', 'a', and the
\* two bytes 0xC3 0xA9 of the UTF-8 encoding of U+00E9.
Alphabet == {9, 32, 40, 41, 65, 97, 195, 169}

\* input, offset: the fields of Lexer (lines 59, 77).
\* lexer: the Result of Lexer::new, "NotBuilt" before the call, then "Ok" or "Err".
\* ret: what the latest next() did: "NotCalled", "Some", "None" or "Panic".
\* tokens: the tokens returned so far, in order; calls: the next() calls made.
\* light: a TrafficLight value of src/src/traffic_light.rs; path: the
\* next_light steps taken from the starting light, each with the function used.
VARIABLES input, lexer, offset, ret, tokens, calls, light, path

lexerVars == <<input, lexer, offset, ret, tokens, calls>>

lightVars == <<light, path>>

vars == <<input, lexer, offset, ret, tokens, calls, light, path>>

\* A &str is well-formed UTF-8: within Alphabet, the lead byte 0xC3 is
\* always followed by the continuation byte 0xA9 and 0xA9 always follows 0xC3.
ValidUtf8(s) ==
    \A i \in 1..Len(s) :
        /\ s[i] = 195 => (i < Len(s) /\ s[i + 1] = 169)
        /\ s[i] = 169 => (i > 1 /\ s[i - 1] = 195)

Inputs == {s \in UNION {[1..n -> Alphabet] : n \in 0..MaxLen} : ValidUtf8(s)}

\* An ASCII test that looks at the first byte only.
is_asciiFirstOnly(s) == Len(s) = 0 \/ s[1] <= 127

\* str::is_ascii: every byte is at most 0x7F.
is_ascii(s) == \A i \in 1..Len(s) : s[i] <= 127

\* A letter test that accepts lower-case letters only.
is_alphabeticLowerOnly(ch) == ch \in 97..122

\* char::is_alphabetic on an ASCII character: the letters A-Z and a-z.
is_alphabetic(ch) == ch \in 65..90 \/ ch \in 97..122

\* &s[a..b] panics unless a <= b <= len(s).
SliceOk(s, a, b) == 0 <= a /\ a <= b /\ b <= Len(s)

\* &s[a..b], for a range that is in bounds.
Slice(s, a, b) == SubSeq(s, a + 1, b)

Span(start, end) == [start |-> start, end |-> end]

\* Token { source, token, span }; ident is the payload of Identifier and is
\* the empty string for the two delimiter kinds, which carry none.
Token(source, token, ident, span) ==
    [source |-> source, token |-> token, ident |-> ident, span |-> span]

\* The outcome of one next() call: ret is "Some", "None" or "Panic", offset
\* the cursor it leaves, emitted the tokens it returns (none or one).
Outcome(r, o, emitted) == [ret |-> r, offset |-> o, emitted |-> emitted]

\* The delimiter arm with the span built after `self.offset += 1`.
DelimiterArmSpanAfterAdvance(s, o, ch) ==
    LET source == Slice(s, o, o + 1)
        token == IF ch = <<40>> THEN "LeftParen" ELSE "RightParen"
        span == Span(o + 1, o + 2)
    IN Outcome("Some", o + 1, <<Token(source, token, <<>>, span)>>)

\* The delimiter arm with the two token kinds exchanged.
DelimiterArmKindsSwapped(s, o, ch) ==
    LET source == Slice(s, o, o + 1)
        token == IF ch = <<40>> THEN "RightParen" ELSE "LeftParen"
        span == Span(o, o + 1)
    IN Outcome("Some", o + 1, <<Token(source, token, <<>>, span)>>)

\* The delimiter arm with `self.offset -= 1` in place of `self.offset += 1`.
DelimiterArmStepsBack(s, o, ch) ==
    LET source == Slice(s, o, o + 1)
        token == IF ch = <<40>> THEN "LeftParen" ELSE "RightParen"
        span == Span(o, o + 1)
    IN Outcome("Some", o - 1, <<Token(source, token, <<>>, span)>>)

\* Lines 109-119: the delimiter arm of the match.
DelimiterArm(s, o, ch) ==
    LET source == Slice(s, o, o + 1)
        token == IF ch = <<40>> THEN "LeftParen" ELSE "RightParen"
        span == Span(o, o + 1)
    IN Outcome("Some", o + 1, <<Token(source, token, <<>>, span)>>)

\* The scan with the first character taken without the alphabetic test.
RECURSIVE ScanIdentifierFirstUnchecked(_, _, _)
ScanIdentifierFirstUnchecked(slice, i, end_offset) ==
    IF i >= Len(slice) THEN end_offset
    ELSE IF i > 0 /\ ~is_alphabetic(slice[i + 1]) THEN end_offset
    ELSE ScanIdentifierFirstUnchecked(slice, i + 1, end_offset + 1)

\* The scan stopping after one letter.
ScanIdentifierOneLetter(slice, i, end_offset) ==
    IF i >= Len(slice) THEN end_offset
    ELSE IF ~is_alphabetic(slice[i + 1]) THEN end_offset
    ELSE end_offset + 1

\* Lines 127-132: end_offset after the loop over slice.chars(), where i is
\* the number of characters already visited.
RECURSIVE ScanIdentifier(_, _, _)
ScanIdentifier(slice, i, end_offset) ==
    IF i >= Len(slice) THEN end_offset
    ELSE IF ~is_alphabetic(slice[i + 1]) THEN end_offset
    ELSE ScanIdentifier(slice, i + 1, end_offset + 1)

\* The cursor set to the identifier's end, skipping nothing.
OffsetAfterIdentifierExact(end_offset) == end_offset

\* The cursor set one short of the identifier's end.
OffsetAfterIdentifierShort(end_offset) == end_offset - 1

\* Line 142: the cursor after an identifier token.
OffsetAfterIdentifier(end_offset) == end_offset + 1

\* Lines 125-143: the identifier scan.
IdentifierArm(s, o) ==
    LET end_offset == ScanIdentifier(Slice(s, o, Len(s)), 0, o)
    IN IF ~SliceOk(s, o, end_offset) THEN Outcome("Panic", o, <<>>)
       ELSE LET source == Slice(s, o, end_offset)
                ident == source
            IN Outcome("Some", OffsetAfterIdentifier(end_offset),
                       <<Token(source, "Identifier", ident, Span(o, end_offset))>>)

\* Lines 107-143: classification of the character at the cursor.
Classify(s, o) ==
    IF ~SliceOk(s, o, o + 1) THEN Outcome("Panic", o, <<>>)
    ELSE LET ch == Slice(s, o, o + 1)
         IN IF ch = <<40>> \/ ch = <<41>> THEN DelimiterArm(s, o, ch)
            ELSE IdentifierArm(s, o)

\* The whitespace loop skipping tabs as well as spaces.
RECURSIVE SkipWhitespaceAndTabs(_, _)
SkipWhitespaceAndTabs(s, o) ==
    IF ~SliceOk(s, o, o + 1) THEN Outcome("Panic", o, <<>>)
    ELSE IF Slice(s, o, o + 1) = <<32>> \/ Slice(s, o, o + 1) = <<9>>
         THEN IF o + 1 >= Len(s) THEN Outcome("None", o + 1, <<>>)
              ELSE SkipWhitespaceAndTabs(s, o + 1)
         ELSE Classify(s, o)

\* Lines 101-104: the whitespace loop, then the rest of next().
RECURSIVE SkipWhitespace(_, _)
SkipWhitespace(s, o) ==
    IF ~SliceOk(s, o, o + 1) THEN Outcome("Panic", o, <<>>)
    ELSE IF Slice(s, o, o + 1) = <<32>>
         THEN IF o + 1 >= Len(s) THEN Outcome("None", o + 1, <<>>)
              ELSE SkipWhitespace(s, o + 1)
         ELSE Classify(s, o)

\* next() without the end check of lines 96-98.
NextCallNoEndCheck(s, o) == SkipWhitespace(s, o)

\* Lines 95-144: Iterator::next.
NextCall(s, o) ==
    IF ~SliceOk(s, o, Len(s)) THEN Outcome("Panic", o, <<>>)
    ELSE IF Slice(s, o, Len(s)) = <<>> THEN Outcome("None", o, <<>>)
    ELSE SkipWhitespace(s, o)

Init ==
    /\ input \in Inputs
    /\ lexer = "NotBuilt"
    /\ offset = 0
    /\ ret = "NotCalled"
    /\ tokens = <<>>
    /\ calls = 0
    /\ light = "Red"
    /\ path = <<>>

\* Lexer::new(input).
New ==
    /\ lexer = "NotBuilt"
    /\ lexer' = IF ~is_ascii(input) THEN "Err" ELSE "Ok"
    /\ offset' = 0
    /\ UNCHANGED <<input, ret, tokens, calls>>
    /\ UNCHANGED lightVars

\* One call of next() on the Lexer; a panic ends the use of the Lexer.
LexerNext ==
    /\ lexer = "Ok"
    /\ ret # "Panic"
    /\ calls < MaxCalls
    /\ LET out == NextCall(input, offset)
       IN /\ ret' = out.ret
          /\ offset' = out.offset
          /\ tokens' = tokens \o out.emitted
    /\ calls' = calls + 1
    /\ UNCHANGED <<input, lexer>>
    /\ UNCHANGED lightVars

Next == New \/ LexerNext

Spec == Init /\ [][Next]_vars

\* The consumer keeps calling next(): `for token in lexer`.
FairSpec == Spec /\ WF_vars(LexerNext) /\ WF_vars(New)

(***************************************************************************)
(* src/src/traffic_light.rs                                                *)
(***************************************************************************)

\* enum TrafficLight.
TrafficLight == {"Red", "Yellow", "Green"}

\* The successor function with the Yellow arm returning Green.
next_lightYellowToGreen(l) ==
    CASE l = "Green" -> "Yellow"
      [] l = "Yellow" -> "Green"
      [] l = "Red" -> "Green"

\* fn next_light(light: &TrafficLight) -> TrafficLight.
next_light(l) ==
    CASE l = "Green" -> "Yellow"
      [] l = "Yellow" -> "Red"
      [] l = "Red" -> "Green"

\* TrafficLight::next_light(&self) -> TrafficLight.
TrafficLight_next_light(self) ==
    CASE self = "Green" -> "Yellow"
      [] self = "Yellow" -> "Red"
      [] self = "Red" -> "Green"

\* One successor step, recorded with the function that made it.
Step(via, to) == [from |-> light, to |-> to, via |-> via]

LightInit ==
    /\ light \in TrafficLight
    /\ path = <<>>
    /\ input = <<>>
    /\ lexer = "NotBuilt"
    /\ offset = 0
    /\ ret = "NotCalled"
    /\ tokens = <<>>
    /\ calls = 0

\* light = next_light(&light).
StepFree ==
    /\ Len(path) < MaxSteps
    /\ light' = next_light(light)
    /\ path' = Append(path, Step("free", light'))
    /\ UNCHANGED lexerVars

\* light = light.next_light().
StepMethod ==
    /\ Len(path) < MaxSteps
    /\ light' = TrafficLight_next_light(light)
    /\ path' = Append(path, Step("method", light'))
    /\ UNCHANGED lexerVars

LightNext == StepFree \/ StepMethod

LightSpec == LightInit /\ [][LightNext]_vars

(***************************************************************************)
(* Properties                                                              *)
(***************************************************************************)

\* The token returned by the latest call, when it returned one.
LastToken == tokens[Len(tokens)]

IsDelimiter(tok) == tok.token \in {"LeftParen", "RightParen"}

\* C1: after a successful Lexer::new on ASCII input no next() call aborts:
\* every call returns a token or no token, never an out-of-range slice panic.
C1_NextNeverFails == ret # "Panic"

\* C2: in every state reached by Lexer::new and next() calls the cursor
\* satisfies 0 <= offset <= len(input).
C2_OffsetInRange == lexer = "Ok" => (0 <= offset /\ offset <= Len(input))

\* C3: once a next() call has returned no token, every later call on that
\* Lexer returns no token and emits nothing further.
C3_EndIsTerminal == [][ret = "None" => (ret' = "None" /\ tokens' = tokens)]_vars

\* A second end-of-sequence answer, after tokens were emitted.
C3_Witness == ret = "None" /\ Len(tokens) >= 1 /\ calls >= Len(tokens) + 2

\* C4: for every ASCII input, repeated next() calls eventually reach a call
\* that returns no token.
C4_DrainTerminates == <>(lexer = "Err" \/ ret = "None")

\* C5: every emitted span satisfies 0 <= start <= end <= len(input), and a
\* later token's span starts at or after the end of every earlier one.
C5_SpanOrdering ==
    \A i \in 1..Len(tokens) :
        /\ 0 <= tokens[i].span.start
        /\ tokens[i].span.start <= tokens[i].span.end
        /\ tokens[i].span.end <= Len(input)
        /\ \A j \in (i + 1)..Len(tokens) :
               tokens[j].span.start >= tokens[i].span.end

\* Three tokens, an identifier followed by others.
C5_Witness ==
    /\ Len(tokens) >= 3
    /\ tokens[1].token = "Identifier"
    /\ tokens[1].span.end > tokens[1].span.start

\* C6: every token's source is input[span.start..span.end], and an
\* Identifier's name is that same slice.
C6_SourceMatchesSpan ==
    \A i \in 1..Len(tokens) :
        /\ SliceOk(input, tokens[i].span.start, tokens[i].span.end)
        /\ tokens[i].source =
               SubSeq(input, tokens[i].span.start + 1, tokens[i].span.end)
        /\ tokens[i].token = "Identifier" =>
               tokens[i].ident =
                   SubSeq(input, tokens[i].span.start + 1, tokens[i].span.end)

\* A delimiter and a two-letter identifier have both been emitted.
C6_Witness ==
    /\ \E i \in 1..Len(tokens) : IsDelimiter(tokens[i]) /\ tokens[i].span.start > 0
    /\ \E i \in 1..Len(tokens) :
           tokens[i].token = "Identifier" /\ Len(tokens[i].ident) = 2

\* C7: a LeftParen/RightParen token has span length 1, source "(" or ")"
\* respectively, equal to the input character at span.start, and the call
\* that emits it leaves the cursor at span.start + 1.
C7_DelimiterTokens ==
    /\ \A i \in 1..Len(tokens) :
           IsDelimiter(tokens[i]) =>
               /\ tokens[i].span.end - tokens[i].span.start = 1
               /\ tokens[i].source =
                      (IF tokens[i].token = "LeftParen" THEN <<40>> ELSE <<41>>)
               /\ tokens[i].span.start < Len(input)
               /\ tokens[i].source = <<input[tokens[i].span.start + 1]>>
    /\ (ret = "Some" /\ IsDelimiter(LastToken)) =>
           offset = LastToken.span.start + 1

\* Both delimiter kinds emitted, the latest call emitting one of them.
C7_Witness ==
    /\ ret = "Some"
    /\ IsDelimiter(LastToken)
    /\ \E i, j \in 1..Len(tokens) :
           tokens[i].token = "LeftParen" /\ tokens[j].token = "RightParen"

\* C8: Lexer::new succeeds with cursor 0 when every byte is < 128, and
\* returns an error, producing no Lexer, when some byte is >= 128.
C8_Construction ==
    lexer # "NotBuilt" =>
        /\ (\A i \in 1..Len(input) : input[i] < 128) =>
               (lexer = "Ok" /\ (calls = 0 => offset = 0))
        /\ (\E i \in 1..Len(input) : input[i] >= 128) =>
               (lexer = "Err" /\ calls = 0 /\ ret = "NotCalled" /\ tokens = <<>>)

\* Construction refused for an input whose first byte is ASCII.
C8_Witness == lexer = "Err" /\ input[1] < 128

\* C9 as stated: every Identifier token carries a non-empty name.
C9_IdentifierNonEmpty ==
    \A i \in 1..Len(tokens) :
        tokens[i].token = "Identifier" => tokens[i].span.end > tokens[i].span.start

\* C9 as amended: an Identifier token has a non-empty name exactly when the
\* input character at its span.start is alphabetic; otherwise its name is
\* empty and its span is [start, start).
C9_IdentifierNonEmptyIffLetter ==
    \A i \in 1..Len(tokens) :
        tokens[i].token = "Identifier" =>
            /\ tokens[i].span.start < Len(input)
            /\ (tokens[i].span.end > tokens[i].span.start
                   <=> (input[tokens[i].span.start + 1] \in 65..90
                           \/ input[tokens[i].span.start + 1] \in 97..122))
            /\ Len(tokens[i].ident) = tokens[i].span.end - tokens[i].span.start

\* An empty and a non-empty identifier emitted by one Lexer.
C9_Witness ==
    \E i, j \in 1..Len(tokens) :
        /\ tokens[i].token = "Identifier" /\ tokens[i].ident = <<>>
        /\ tokens[j].token = "Identifier" /\ tokens[j].ident # <<>>

\* C10: the cursor never decreases across next() calls.
C10_MonotonicCursor == [][offset' >= offset]_vars

\* The cursor has moved in at least two calls, past a space and a delimiter.
C10_Witness ==
    /\ Len(tokens) >= 2
    /\ \E i \in 1..Len(tokens) : IsDelimiter(tokens[i])
    /\ input[1] = 32

\* The successor of a light, as the claim tabulates it.
C11_Table == [Red |-> "Green", Green |-> "Yellow", Yellow |-> "Red"]

\* C11: next_light maps Red to Green, Green to Yellow and Yellow to Red, so
\* three successive steps from any light visit all three lights and return
\* to the starting one, and the free function and the method give the same
\* successor for every light.
C11_TrafficLightCycle ==
    /\ \A i \in 1..Len(path) : path[i].to = C11_Table[path[i].from]
    /\ \A i \in 1..Len(path) :
           i + 2 <= Len(path) =>
               /\ path[i + 2].to = path[i].from
               /\ {path[i].to, path[i + 1].to, path[i + 2].to} = TrafficLight
    /\ next_light(light) = C11_Table[light]
    /\ TrafficLight_next_light(light) = C11_Table[light]
    /\ next_light(light) = TrafficLight_next_light(light)

\* Three steps from Red, made with both functions, are back at Red.
C11_Witness ==
    /\ Len(path) = 3
    /\ path[1].from = "Red"
    /\ light = "Red"
    /\ \E i, j \in 1..3 : path[i].via = "free" /\ path[j].via = "method"

\* A letter A-Z or a-z, as a byte.
IsLetter(b) == b \in 65..90 \/ b \in 97..122

\* The input is alphabetic words separated by single spaces.
IsWords(s) ==
    /\ Len(s) >= 1
    /\ IsLetter(s[1]) /\ IsLetter(s[Len(s)])
    /\ \A i \in 1..Len(s) : IsLetter(s[i]) \/ s[i] = 32
    /\ \A i \in 1..(Len(s) - 1) : ~(s[i] = 32 /\ s[i + 1] = 32)

\* C12: a call that emits an Identifier with span [s, e) leaves the cursor
\* at e + 1, a call that emits a delimiter leaves it at the span's end; so
\* on words separated by single spaces the cursor after each identifier but
\* the last is on the first letter of the next word.
C12_IdentifierCursorUpdate ==
    ret = "Some" =>
        /\ LastToken.token = "Identifier" => offset = LastToken.span.end + 1
        /\ IsDelimiter(LastToken) =>
               offset = LastToken.span.start + Len(LastToken.source)
        /\ (IsWords(input) /\ LastToken.token = "Identifier"
                /\ LastToken.span.end < Len(input)) =>
               /\ offset < Len(input)
               /\ input[offset] = 32
               /\ IsLetter(input[offset + 1])

\* The first of two words has just been emitted.
C12_Witness ==
    /\ ret = "Some"
    /\ IsWords(input)
    /\ LastToken.token = "Identifier"
    /\ LastToken.span.end < Len(input)
    /\ Len(LastToken.ident) >= 1

\* A next() call is made in this step.
IsCall == lexer = "Ok" /\ calls' = calls + 1

\* Some character at 0-based index c or later is not a space.
HasNonSpaceFrom(c) == \E k \in c..(Len(input) - 1) : input[k + 1] # 32

\* The least 0-based index >= c whose character is not a space.
FirstNonSpaceFrom(c) ==
    CHOOSE k \in c..(Len(input) - 1) :
        /\ input[k + 1] # 32
        /\ \A m \in c..(k - 1) : input[m + 1] = 32

C14_ZeroLengthIdentifier ==
    [][(IsCall /\ offset < Len(input) /\ HasNonSpaceFrom(offset)
           /\ input[FirstNonSpaceFrom(offset) + 1] \notin {40, 41}
           /\ ~IsLetter(input[FirstNonSpaceFrom(offset) + 1])) =>
          /\ ret' = "Some"
          /\ Len(tokens') = Len(tokens) + 1
          /\ tokens'[Len(tokens')].token = "Identifier"
          /\ tokens'[Len(tokens')].ident = <<>>
          /\ tokens'[Len(tokens')].source = <<>>
          /\ tokens'[Len(tokens')].span =
                 [start |-> FirstNonSpaceFrom(offset),
                  end |-> FirstNonSpaceFrom(offset)]
          /\ offset' = FirstNonSpaceFrom(offset) + 1]_vars

\* An empty Identifier on a tab reached after a skipped space, then a
\* further token.
C14_Witness ==
    /\ Len(tokens) >= 2
    /\ tokens[1].token = "Identifier"
    /\ tokens[1].span = [start |-> 1, end |-> 1]
    /\ input[2] = 9

\* The 0-based index k lies in the span of some emitted token.
Covered(k) ==
    \E j \in 1..Len(tokens) :
        tokens[j].span.start <= k /\ k < tokens[j].span.end

\* C15: a non-empty Identifier with span [s, e) covers letters only and is a
\* maximal run of them: e = len(input) or input[e] is no letter, and s = 0 or
\* input[s-1] is no letter.
C15_IdentifierMaximal ==
    \A i \in 1..Len(tokens) :
        (tokens[i].token = "Identifier"
            /\ tokens[i].span.end > tokens[i].span.start) =>
            /\ \A k \in tokens[i].span.start..(tokens[i].span.end - 1) :
                   IsLetter(input[k + 1])
            /\ tokens[i].span.end = Len(input)
                   \/ ~IsLetter(input[tokens[i].span.end + 1])
            /\ tokens[i].span.start = 0
                   \/ ~IsLetter(input[tokens[i].span.start])

\* Two non-empty identifiers, mixing upper and lower case, in one input.
C15_Witness ==
    /\ Len(tokens) >= 2
    /\ tokens[1].token = "Identifier" /\ Len(tokens[1].ident) = 2
    /\ tokens[1].ident[1] # tokens[1].ident[2]
    /\ tokens[2].token = "Identifier" /\ Len(tokens[2].ident) = 1

\* C16: when an Identifier with span [s, e) is emitted and e < len(input),
\* the character at index e is covered by no emitted token, even when it is
\* a delimiter; on "(a)" exactly LeftParen@[0,1) and Identifier("a")@[1,2)
\* are emitted and then the sequence ends.
C16_CharAfterIdentifierDropped ==
    /\ \A i \in 1..Len(tokens) :
           (tokens[i].token = "Identifier" /\ tokens[i].span.end < Len(input)) =>
               ~Covered(tokens[i].span.end)
    /\ (input = <<40, 97, 41>> /\ calls >= 2) =>
           /\ tokens = <<Token(<<40>>, "LeftParen", <<>>, [start |-> 0, end |-> 1]),
                         Token(<<97>>, "Identifier", <<97>>, [start |-> 1, end |-> 2])>>
           /\ calls >= 3 => ret = "None"

\* "(a)" drained: the closing delimiter was never emitted.
C16_Witness ==
    /\ input = <<40, 97, 41>>
    /\ ret = "None"
    /\ calls >= 3
    /\ ~Covered(2)

\* C17 as stated, for the inputs it names: on an input of two or more
\* letters and nothing else (no buffering space, like "onetwo"), once the
\* Identifier is emitted the cursor update has skipped a letter, which no
\* emitted token covers.
C17_LetterSkipped ==
    (Len(input) >= 2 /\ (\A k \in 1..Len(input) : IsLetter(input[k]))
        /\ Len(tokens) >= 1) =>
        \E k \in 0..(Len(input) - 1) : IsLetter(input[k + 1]) /\ ~Covered(k)

\* C17 as amended: the character skipped after an Identifier is never a
\* letter.  When an Identifier with span [s, e) is emitted and e <
\* len(input), input[e] is not alphabetic; every letter of the input at or
\* after the first token's start is covered by an emitted token once the
\* cursor has passed it, and an all-letter input yields one Identifier
\* spanning the whole input.
C17_SkippedIsNeverLetter ==
    /\ \A i \in 1..Len(tokens) :
           (tokens[i].token = "Identifier" /\ tokens[i].span.end < Len(input)) =>
               ~IsLetter(input[tokens[i].span.end + 1])
    /\ \A k \in 0..(Len(input) - 1) :
           (IsLetter(input[k + 1]) /\ k < offset /\ lexer = "Ok") => Covered(k)
    /\ ((\A k \in 1..Len(input) : IsLetter(input[k])) /\ Len(tokens) >= 1) =>
           /\ Len(tokens) = 1
           /\ tokens[1].span = [start |-> 0, end |-> Len(input)]

\* A non-empty identifier, a skipped delimiter after it, and a second
\* non-empty identifier right after the skipped character.
C17_Witness ==
    /\ Len(tokens) >= 2
    /\ tokens[1].token = "Identifier" /\ tokens[1].span.end > tokens[1].span.start
    /\ input[tokens[1].span.end + 1] \in {40, 41}
    /\ tokens[2].token = "Identifier" /\ tokens[2].span.end > tokens[2].span.start

\* C18: a call that emits a token starts with cursor < len(input) and
\* leaves the cursor strictly greater, so a Lexer emits at most len(input)
\* tokens, and none on the empty input.
C18_Progress ==
    /\ [][(IsCall /\ ret' = "Some") =>
             /\ offset < Len(input)
             /\ offset' > offset
             /\ Len(tokens') = Len(tokens) + 1]_vars
    /\ [](Len(tokens) <= Len(input))

\* As many tokens as input characters, on an input with a zero-length
\* identifier.
C18_Witness ==
    /\ Len(input) >= 3
    /\ Len(tokens) = Len(input)
    /\ \E i \in 1..Len(tokens) :
           tokens[i].token = "Identifier" /\ tokens[i].ident = <<>>

====
